---- MODULE Spec2Model ----
(***************************************************************************)
(* LSB steganography codec of securex-cipher-forge.                        *)
(*                                                                         *)
(*   src/src/utils/steganographyUtils.ts                                   *)
(*     - class SteganographyProcessor (ImageData pair, delimiter 4 x NUL)  *)
(*     - module functions embedMessage / extractMessage (file-based pair,  *)
(*       delimiter "###END###")                                            *)
(*   src/src/components/Steganography.tsx                                  *)
(*     - the component's own embed / extract handlers                      *)
(*                                                                         *)
(* Strings are sequences of UTF-16 code units (naturals), bit strings are  *)
(* sequences over {0,1}, pixel buffers are sequences of bytes (index 1 of  *)
(* the sequence is index 0 of the typed array).                            *)
(***************************************************************************)
EXTENDS Integers, Sequences, FiniteSets, TLC

VARIABLES
    imageData,      \* the caller's image: [width, height, data]
    message,        \* the message handed to embed
    pc,             \* "input" | "embedded" | "extracted"
    embedApi,       \* "none" | "processor" | "file"
    embedOutcome,   \* what the browser did during the file-based embed
    embedResult,    \* SteganographyResult of the file-based embedMessage
    canvasData,     \* pixel buffer held by the canvas of the file-based embed
    stego,          \* image returned by embed (ImageData or the PNG blob)
    extractApi,     \* "none" | "processor" | "file"
    extractSource,  \* "none" | "input" | "stego"
    extractOutcome, \* what the browser did during the file-based extract
    extractResult,  \* SteganographyResult of extract
    bitsRead,       \* LSBs collected by SteganographyProcessor.extractMessage
    console,        \* what the codec has written with console.log
    earlier,        \* the messages embedded before the present one
    \* state of the Steganography component (useState hooks)
    selectedImage,      \* File | null
    secretMessage,
    extractedMessage,
    isProcessing,
    imagePreview,       \* data URL of the selected file, "" before it is read
    hasEmbeddedMessage,
    \* the component's environment
    readers,        \* files whose FileReader has not fired onload yet
    task,           \* the pending timer / image load / toBlob callback
    downloaded,     \* the file saved by the last a.click() download
    analysed,       \* the file drawn on the canvas by the last extract
    toast,          \* title of the last toast
    userEvents,     \* number of user interactions so far
    \* encryptFile / decryptFile (src/src/utils/fileEncryption.ts)
    fileData,       \* bytes of the file handed to the last encryptFile
    password,       \* password of the last encryptFile
    rng,            \* what crypto.getRandomValues returned in the last call
    encFault,       \* the step of the last encryptFile that threw
    encResult,      \* EncryptionResult of the last encryptFile
    encLog,         \* one record per encryptFile call so far
    cpc,            \* "start" | "encrypted" | "modified" | "decrypted"
    container,      \* bytes of the file handed to decryptFile
    modification,   \* what happened to the container after encryptFile
    decPassword,    \* password handed to decryptFile
    decFault,       \* the step of decryptFile that threw
    decResult,      \* EncryptionResult of decryptFile
    kdfCalls,       \* invocations of deriveKey by decryptFile
    \* calls in flight at the same time
    calls,          \* per call: the function, its arguments, its position
    frames,         \* per call: the local constants of its activation
    \* caesarCipher (src/src/components/TextEncryption.tsx)
    inputText,      \* the text handed to the Caesar encryption
    keyField,       \* the number typed into the key field
    outputText,     \* caesarCipher(inputText, shift, true)
    restored,       \* caesarCipher(outputText, shift, false)
    tpc             \* "input" | "encrypted" | "decrypted"

codecVars == <<imageData, message, pc, embedApi, embedOutcome, embedResult,
               canvasData, stego, extractApi, extractSource, extractOutcome,
               extractResult, bitsRead, console, earlier>>

uiVars == <<selectedImage, secretMessage, extractedMessage, isProcessing,
            imagePreview, hasEmbeddedMessage, readers, task, downloaded,
            analysed, toast, userEvents>>

cipherVars == <<fileData, password, rng, encFault, encResult, encLog, cpc,
                container, modification, decPassword, decFault, decResult,
                kdfCalls>>

concVars == <<calls, frames>>

textVars == <<inputText, keyField, outputText, restored, tpc>>

vars == <<codecVars, uiVars, cipherVars, concVars, textVars>>

----------------------------------------------------------------------------
(* Bounds of the model *)

MaxTokens == 2      \* a message is a concatenation of at most MaxTokens tokens
MaxPattern == 1     \* pixel patterns 0..MaxPattern
MaxEvents == 5      \* user interactions with the component
MaxFileLen == 1     \* bytes in a file handed to encryptFile
MaxDraw == 1        \* salts and nonces 0..MaxDraw the random source returns
MaxCalls == 2       \* encryptFile calls in a sequence of calls
MaxInFlight == 2    \* calls in flight at the same time
MaxTextLen == 2     \* characters of a text handed to caesarCipher
MaxKey == 27        \* keys -MaxKey..MaxKey

----------------------------------------------------------------------------
(* Program constants *)

\* private static readonly DELIMITER = '\0\0\0\0'
DELIMITER == <<0, 0, 0, 0>>

\* const MESSAGE_DELIMITER = "###END###"
MESSAGE_DELIMITER == <<35, 35, 35, 69, 78, 68, 35, 35, 35>>

\* if (binaryMessage.length > 10000) break;
ScanLimit == 10000

----------------------------------------------------------------------------
(* Inputs *)

\* "a", NUL, "#", the euro sign (code unit 0x20AC, above 255), "hi", both
\* delimiters, and "###END", the period of "###END###".
Tokens == { <<97>>, <<0>>, <<35>>, <<8364>>, <<104, 105>>, DELIMITER,
            MESSAGE_DELIMITER, <<35, 35, 35, 69, 78, 68>> }

RECURSIVE Strings(_)
Strings(k) == IF k = 0 THEN {<<>>}
              ELSE LET S == Strings(k - 1)
                   IN  S \cup {s \o t : s \in S, t \in Tokens}

Messages == Strings(MaxTokens)

\* the messages of two successive embeds into one image
ReMessages == Strings(1)
ReDims == { <<4, 4>>, <<8, 5>>, <<8, 6>> }

\* width x height of the images
Dims == { <<1, 1>>, <<3, 2>>, <<4, 3>>, <<4, 4>>, <<8, 5>>, <<8, 6>> }

\* Byte j (0-based) of pattern p: pattern 0 is opaque black, pattern 2 is
\* white, the others are gradients with mixed low bits; but for pattern 0
\* the alpha bytes vary.  Pixels pass through the canvas unchanged.
PatternByte(p, j) ==
    IF j % 4 = 3 THEN 255 - ((p * j) % 256)
    ELSE IF p = 0 THEN 0
    ELSE IF p = 2 THEN 255
    ELSE (p * 85 + 7 * j * p + (j \div 5)) % 256

MakeImage(w, h, p) ==
    [width |-> w, height |-> h,
     data |-> [j \in 1..(4 * w * h) |-> PatternByte(p, j - 1)]]

\* a 10x10 image, every pixel opaque black
BlackImage == MakeImage(10, 10, 0)

Images == { MakeImage(d[1], d[2], p) : d \in Dims, p \in 0..MaxPattern }
              \cup {BlackImage}

NoImage == [width |-> 0, height |-> 0, data |-> <<>>]

----------------------------------------------------------------------------
(* String helpers of the JavaScript runtime used by the codec *)

\* Number.prototype.toString(2)
RECURSIVE toString2(_)
toString2(n) == IF n < 2 THEN <<n>> ELSE toString2(n \div 2) \o <<n % 2>>

\* String.prototype.padStart(8, '0')
RECURSIVE padStart8(_)
padStart8(s) == IF Len(s) >= 8 THEN s ELSE padStart8(<<0>> \o s)

\* parseInt(byte, 2)
RECURSIVE parseInt2(_)
parseInt2(b) == IF Len(b) = 0 THEN 0
                ELSE 2 * parseInt2(SubSeq(b, 1, Len(b) - 1)) + b[Len(b)]

\* String.prototype.includes
includes(text, d) ==
    \E i \in 1..(Len(text) - Len(d) + 1) : SubSeq(text, i, i + Len(d) - 1) = d

\* String.prototype.split(d)[0]: the text before the first occurrence of d,
\* or the whole text when d does not occur.
splitFirst(text, d) ==
    IF includes(text, d)
    THEN LET i == CHOOSE k \in 1..(Len(text) - Len(d) + 1) :
                     /\ SubSeq(text, k, k + Len(d) - 1) = d
                     /\ \A l \in 1..(k - 1) : SubSeq(text, l, l + Len(d) - 1) # d
         IN  SubSeq(text, 1, i - 1)
    ELSE text

----------------------------------------------------------------------------
(* class SteganographyProcessor *)

\* text.split('').map(c => c.charCodeAt(0).toString(2).padStart(8,'0')).join('')
RECURSIVE Processor_stringToBinary(_)
Processor_stringToBinary(text) ==
    IF Len(text) = 0 THEN <<>>
    ELSE padStart8(toString2(Head(text))) \o Processor_stringToBinary(Tail(text))

\* (binary.match(/.{8}/g) || []).map(b => String.fromCharCode(parseInt(b, 2)))
Processor_binaryToString(binary) ==
    [k \in 1..(Len(binary) \div 8) |->
        parseInt2(SubSeq(binary, 8 * (k - 1) + 1, 8 * k))]

\* Variant: the byte index is used as the bit index.
bitIndexOf_byte(j) == j

\* The nested loops visit data[i + channel] for i = 0,4,8,... and
\* channel = 0,1,2, bitIndex counting the visits: the byte at 0-based index
\* j with j % 4 < 3 is visited with bitIndex = 3 * (j div 4) + j % 4.
bitIndexOf(j) == 3 * (j \div 4) + (j % 4)

\* data[pixelIndex] = (data[pixelIndex] & 0xFE) | bit
setLSB(byte, bit) == (byte - (byte % 2)) + bit

\* Variant: the pixel loop advances by 3, so alpha bytes carry payload too.
embedBits_alpha(data, binaryMessage) ==
    [q \in 1..Len(data) |->
        IF q - 1 < Len(binaryMessage)
        THEN setLSB(data[q], binaryMessage[q])
        ELSE data[q]]

embedBits(data, binaryMessage) ==
    [q \in 1..Len(data) |->
        LET j == q - 1
        IN  IF j % 4 < 3 /\ bitIndexOf(j) < Len(binaryMessage)
            THEN setLSB(data[q], binaryMessage[bitIndexOf(j) + 1])
            ELSE data[q]]

Processor_embedMessage(image, msg) ==
    LET messageWithDelimiter == msg \o DELIMITER
        binaryMessage == Processor_stringToBinary(messageWithDelimiter)
    IN  [width |-> image.width, height |-> image.height,
         data |-> embedBits(image.data, binaryMessage)]

\* The LSBs of the R, G, B bytes in scan order.
lsbStream(data) ==
    [k \in 1..(3 * (Len(data) \div 4)) |->
        data[4 * ((k - 1) \div 3) + ((k - 1) % 3) + 1] % 2]

notFound == [success |-> FALSE, error |-> "No hidden message found in this image"]

\* The loops append one LSB at a time; n is binaryMessage.length after an
\* append.  The scan ends after the last RGB byte, or by the break taken
\* once n > ScanLimit, so the lengths it reaches are 1..lastBit.  It returns
\* at the first length n >= 32 with n % 8 = 0 at which the decoded text
\* includes the delimiter and the text before it is not empty.
scanEnd_whole(available) == available
scanEnd(available) ==
    IF available > ScanLimit THEN ScanLimit + 1 ELSE available

Processor_scan(stream) ==
    LET lastBit == scanEnd(Len(stream))
        decoded == Processor_binaryToString(SubSeq(stream, 1, lastBit))
        currentMessage(n) == SubSeq(decoded, 1, n \div 8)
        extracted(n) == splitFirst(currentMessage(n), DELIMITER)
        returns == { n \in 32..lastBit :
                       /\ n % 8 = 0
                       /\ includes(currentMessage(n), DELIMITER)
                       /\ Len(extracted(n)) > 0 }
    IN  IF returns # {}
        THEN LET n == CHOOSE x \in returns : \A y \in returns : x <= y
             IN  [result |-> [success |-> TRUE, message |-> extracted(n)],
                  bits |-> n]
        ELSE [result |-> notFound, bits |-> lastBit]

Processor_extractMessage(image) == Processor_scan(lsbStream(image.data))

\* const newData = new Uint8ClampedArray(data): the loops write to a copy,
\* not to the buffer of the caller's ImageData
writesInPlace_alias(image) == TRUE
writesInPlace(image) == FALSE

\* the caller's ImageData after SteganographyProcessor.embedMessage returned
inputAfterEmbed(image, msg) ==
    IF writesInPlace(image) THEN Processor_embedMessage(image, msg) ELSE image

\* one console.log call: its label, and the text or the number logged with it
logText(label, text) == [label |-> label, text |-> text, number |-> 0]
logNumber(label, n) == [label |-> label, text |-> <<>>, number |-> n]

\* the console.log calls of SteganographyProcessor.embedMessage
Processor_embedLog(image, msg) ==
    LET binaryMessage == Processor_stringToBinary(msg \o DELIMITER)
        room == 3 * (Len(image.data) \div 4)
        bitIndex == IF Len(binaryMessage) < room THEN Len(binaryMessage) ELSE room
    IN  << logText("Embedding message:", msg),
           logNumber("Binary length:", Len(binaryMessage)),
           logNumber("Embedded", bitIndex) >>

\* the console.log calls of SteganographyProcessor.extractMessage
Processor_extractLog(image) ==
    LET r == Processor_extractMessage(image)
    IN  << logNumber("Extracting from image data, size:", Len(image.data)),
           IF r.result.success
           THEN logText("Found delimiter, extracted message:", r.result.message)
           ELSE logNumber("No valid message found, binary length:", r.bits) >>

Processor_checkCapacity(image, msg) ==
    LET messageWithDelimiter == msg \o DELIMITER
        requiredBits == Len(Processor_stringToBinary(messageWithDelimiter))
        availableBits == image.width * image.height * 3
    IN  requiredBits <= availableBits

----------------------------------------------------------------------------
(* file-based embedMessage / extractMessage *)

RECURSIVE stringToBinary(_)
stringToBinary(str) ==
    IF Len(str) = 0 THEN <<>>
    ELSE padStart8(toString2(Head(str))) \o stringToBinary(Tail(str))

\* binary.substr(i, 8) for i = 0, 8, ...; only full bytes are decoded
binaryToString(binary) ==
    [k \in 1..(Len(binary) \div 8) |->
        parseInt2(SubSeq(binary, 8 * (k - 1) + 1, 8 * k))]

\* What the browser does with the file: the image fails to load, the canvas
\* gives no 2D context, toBlob yields null, or everything works.
Outcomes == {"ok", "loaderror", "nocontext", "noblob"}

\* Variant: the capacity test is off by one (>= for >).
overCapacity_ge(binaryMessage, maxCapacity) == Len(binaryMessage) >= maxCapacity

\* if (binaryMessage.length > maxCapacity)
overCapacity(binaryMessage, maxCapacity) == Len(binaryMessage) > maxCapacity

\* Returns the resolved SteganographyResult, the canvas pixels after the
\* handler (<<>> when nothing was drawn) and the blob's pixels.
embedMessage(imageFile, msg, outcome) ==
    IF outcome = "loaderror"
    THEN [result |-> [success |-> FALSE, error |-> "Failed to load image"],
          canvas |-> <<>>, blob |-> NoImage]
    ELSE IF outcome = "nocontext"
    THEN [result |-> [success |-> FALSE, error |-> "Failed to get image data"],
          canvas |-> <<>>, blob |-> NoImage]
    ELSE
      LET fullMessage == msg \o MESSAGE_DELIMITER
          binaryMessage == stringToBinary(fullMessage)
          maxCapacity == (Len(imageFile.data) \div 4) * 3
      IN  IF overCapacity(binaryMessage, maxCapacity)
          THEN [result |-> [success |-> FALSE, error |-> "Message too long",
                            maxChars |-> maxCapacity \div 8],
                canvas |-> imageFile.data, blob |-> NoImage]
          ELSE LET written == embedBits(imageFile.data, binaryMessage)
               IN  IF outcome = "noblob"
                   THEN [result |-> [success |-> FALSE,
                                     error |-> "Failed to create image blob"],
                         canvas |-> written, blob |-> NoImage]
                   ELSE [result |-> [success |-> TRUE],
                         canvas |-> written,
                         blob |-> [width |-> imageFile.width,
                                   height |-> imageFile.height,
                                   data |-> written]]

\* Variant: when no delimiter is found the decoded text is returned as a guess.
file_scan_guess(text, k) ==
    LET hits == { n \in k..Len(text) :
                    /\ includes(SubSeq(text, 1, n), MESSAGE_DELIMITER)
                    /\ Len(splitFirst(SubSeq(text, 1, n), MESSAGE_DELIMITER)) > 0 }
    IN  IF hits # {}
        THEN [success |-> TRUE, message |-> splitFirst(text, MESSAGE_DELIMITER)]
        ELSE IF Len(text) > 0 THEN [success |-> TRUE, message |-> text]
        ELSE notFound

\* k is the number of bytes decoded so far (extractedText.length).
RECURSIVE file_scan(_, _)
file_scan(text, k) ==
    IF k > Len(text)
    THEN notFound
    ELSE LET extractedText == SubSeq(text, 1, k)
             found == splitFirst(extractedText, MESSAGE_DELIMITER)
         IN  IF includes(extractedText, MESSAGE_DELIMITER) /\ Len(found) > 0
             THEN [success |-> TRUE, message |-> found]
             ELSE file_scan(text, k + 1)

extractMessage(imageFile, outcome) ==
    IF outcome = "loaderror"
    THEN [success |-> FALSE, error |-> "Failed to load image"]
    ELSE IF outcome = "nocontext"
    THEN [success |-> FALSE, error |-> "Failed to get image data"]
    ELSE file_scan(binaryToString(lsbStream(imageFile.data)), 1)

----------------------------------------------------------------------------
(* Steganography component (src/src/components/Steganography.tsx)          *)

\* const maxPixels = Math.min(canvas.width * canvas.height, 2000)
MaxScanPixels == 2000
\* if (extractedText.length > 200) break
MaxExtractedText == 200
\* cleanText.substring(0, 100)
MaxReturnedText == 100
\* i < Math.min(binaryString.length, 1000)
MaxPatternBits == 1000

Min(a, b) == IF a < b THEN a ELSE b

\* The decoding loop of simulateLSBExtraction; i is the 0-based bit offset.
RECURSIVE decodeChunks(_, _, _, _)
decodeChunks(binaryString, i, extractedText, validCharCount) ==
    IF ~(i < Len(binaryString) - 7)
    THEN extractedText
    ELSE LET charCode == parseInt2(SubSeq(binaryString, i + 1, i + 8))
         IN  IF charCode >= 32 /\ charCode <= 126
             THEN IF Len(extractedText) + 1 > MaxExtractedText
                  THEN extractedText \o <<charCode>>
                  ELSE decodeChunks(binaryString, i + 8,
                                    extractedText \o <<charCode>>,
                                    validCharCount + 1)
             ELSE IF charCode = 0
             THEN extractedText
             ELSE LET t == IF validCharCount > 0
                           THEN extractedText \o <<63>>
                           ELSE extractedText
                  IN  IF Len(t) > MaxExtractedText
                      THEN t
                      ELSE decodeChunks(binaryString, i + 8, t, validCharCount)

\* String.prototype.trim; the only white space among the code units 32..126
\* is the space.
RECURSIVE trim(_)
trim(t) == IF Len(t) = 0 THEN t
           ELSE IF Head(t) = 32 THEN trim(Tail(t))
           ELSE IF t[Len(t)] = 32 THEN trim(SubSeq(t, 1, Len(t) - 1))
           ELSE t

isLetter(c) == (c >= 65 /\ c <= 90) \/ (c >= 97 /\ c <= 122)
\* \w
isWord(c) == isLetter(c) \/ (c >= 48 /\ c <= 57) \/ c = 95

\* /[a-zA-Z]{2,}/.test(cleanText)
hasLetters(t) == \E i \in 1..(Len(t) - 1) : isLetter(t[i]) /\ isLetter(t[i + 1])

\* /\b\w{3,}\b/.test(cleanText): a maximal run of word characters of length
\* at least 3.
hasWords(t) ==
    \E i \in 1..Len(t) : \E j \in i..Len(t) :
        /\ j - i + 1 >= 3
        /\ \A k \in i..j : isWord(t[k])
        /\ (i = 1 \/ ~isWord(t[i - 1]))
        /\ (j = Len(t) \/ ~isWord(t[j + 1]))

\* Math.abs(ratio - 0.5) < 0.1 with ratio = ones / (ones + zeros), computed
\* in IEEE doubles: 0/0 is NaN and compares false; for a ratio of exactly
\* 0.4 or 0.6 the rounded difference 0.09999999999999998 is below 0.1.
balanced(ones, zeros) ==
    LET total == ones + zeros
        d == IF 10 * ones >= 5 * total THEN 10 * ones - 5 * total
             ELSE 5 * total - 10 * ones
    IN  total > 0 /\ d <= total

\* for (i = 0; i < Math.min(binaryString.length, 1000); i += 8)
\*     chunks.push(binaryString.substr(i, 8))
chunksOf(binaryString) ==
    LET n == Min(Len(binaryString), MaxPatternBits)
        count == (n + 7) \div 8
    IN  [c \in 1..count |->
           SubSeq(binaryString, 8 * (c - 1) + 1,
                  Min(8 * c, Len(binaryString)))]

\* uniqueChunks.size / chunks.length < 0.7
repeating(chunks) ==
    LET unique == { chunks[c] : c \in 1..Len(chunks) }
    IN  Len(chunks) > 0 /\ 10 * Cardinality(unique) < 7 * Len(chunks)

\* The strings the component shows.
EmptyText == [kind |-> "text", text |-> <<>>]
EncryptedNotice ==
    [kind |-> "Hidden data detected but appears to be encrypted or in binary format."]
PatternNotice ==
    [kind |-> "Possible steganographic content detected (pattern analysis suggests hidden data)."]
NoContentNotice == [kind |-> "No steganographic content detected."]

simulateLSBExtraction(canvas) ==
    LET maxPixels == Min(canvas.width * canvas.height, MaxScanPixels)
        binaryString == SubSeq(lsbStream(canvas.data), 1, 3 * maxPixels)
        extractedText == decodeChunks(binaryString, 0, <<>>, 0)
        \* extractedText holds code units 32..126 only, the replace is void
        cleanText == trim(extractedText)
        ones == Cardinality({k \in 1..Len(binaryString) : binaryString[k] = 1})
        zeros == Cardinality({k \in 1..Len(binaryString) : binaryString[k] = 0})
    IN  IF Len(cleanText) >= 3 /\ hasLetters(cleanText) /\ hasWords(cleanText)
        THEN [kind |-> "text",
              text |-> SubSeq(cleanText, 1, Min(Len(cleanText), MaxReturnedText))]
        ELSE IF balanced(ones, zeros)
        THEN EncryptedNotice
        ELSE IF repeating(chunksOf(binaryString))
        THEN PatternNotice
        ELSE EmptyText

\* new TextEncoder().encode(secretMessage): UTF-8 bytes of the code units
\* (no surrogates among the inputs)
utf8(c) == IF c < 128 THEN <<c>>
           ELSE IF c < 2048 THEN <<192 + (c \div 64), 128 + (c % 64)>>
           ELSE <<224 + (c \div 4096), 128 + ((c \div 64) % 64), 128 + (c % 64)>>

RECURSIVE encodeBits(_)
encodeBits(text) ==
    IF Len(text) = 0 THEN <<>>
    ELSE LET bytes == utf8(Head(text))
             bitsOf(b) == [k \in 1..8 |-> (b \div (2 ^ (8 - k))) % 2]
             RECURSIVE all(_)
             all(bs) == IF Len(bs) = 0 THEN <<>>
                        ELSE bitsOf(Head(bs)) \o all(Tail(bs))
         IN  all(bytes) \o encodeBits(Tail(text))

\* The embedding loop of the component: bit number bitIndex of the message
\* bytes goes to data[floor(bitIndex / 3) * 4 + bitIndex % 3] while
\* bitIndex < data.length; a write past the end of the typed array is void.
componentEmbed(data, text) ==
    LET bits == encodeBits(text)
    IN  [q \in 1..Len(data) |->
           LET j == q - 1
           IN  IF j % 4 < 3 /\ bitIndexOf(j) < Len(bits) /\ bitIndexOf(j) < Len(data)
               THEN setLSB(data[q], bits[bitIndexOf(j) + 1])
               ELSE data[q]]

\* Files the user can pick: images that never went through embed, a file
\* of an image type that does not decode, a file of another type, and the
\* file saved by the last download.
NoFile == [type |-> "none", origin |-> "none", img |-> NoImage]

UIDims == { <<3, 2>>, <<4, 3>> }

VirginFiles ==
    { [type |-> "image", origin |-> "virgin", img |-> MakeImage(d[1], d[2], p)] :
        d \in UIDims, p \in 0..MaxPattern }

BrokenFile == [type |-> "image", origin |-> "virgin", img |-> NoImage]
TextFile == [type |-> "other", origin |-> "virgin", img |-> NoImage]

SelectableFiles ==
    VirginFiles \cup {BrokenFile, TextFile}
        \cup (IF downloaded = NoFile THEN {} ELSE {downloaded})

UISecrets == { <<>>, <<104, 105, 97>>, <<8364>> }

Idle == [kind |-> "idle", preview |-> NoFile, secret |-> <<>>, canvas |-> NoImage]

\* An <img> fires onload when its src decodes; an empty src or a file that
\* is no image fires the error event.
Decodes(file) == file.img # NoImage

UIUnchangedCodec == UNCHANGED <<codecVars, cipherVars, concVars, textVars>>

handleImageSelect ==
    /\ userEvents < MaxEvents
    /\ userEvents' = userEvents + 1
    /\ \E file \in SelectableFiles :
         IF file.type = "image"
         THEN /\ selectedImage' = file
              /\ readers' = readers \cup {file}
              /\ extractedMessage' = EmptyText
              /\ hasEmbeddedMessage' = FALSE
              /\ toast' = "Image Selected"
         ELSE /\ toast' = "Error: Please select a valid image file"
              /\ UNCHANGED <<selectedImage, readers, extractedMessage,
                             hasEmbeddedMessage>>
    /\ UNCHANGED <<secretMessage, isProcessing, imagePreview, task, downloaded,
                   analysed>>
    /\ UIUnchangedCodec

\* reader.onload
readerOnload ==
    /\ \E file \in readers :
         /\ imagePreview' = file
         /\ readers' = readers \ {file}
    /\ UNCHANGED <<selectedImage, secretMessage, extractedMessage, isProcessing,
                   hasEmbeddedMessage, task, downloaded, analysed, toast,
                   userEvents>>
    /\ UIUnchangedCodec

\* onChange of the message text area
setSecretMessage ==
    /\ userEvents < MaxEvents
    /\ userEvents' = userEvents + 1
    /\ \E m \in UISecrets : m # secretMessage /\ secretMessage' = m
    /\ UNCHANGED <<selectedImage, extractedMessage, isProcessing, imagePreview,
                   hasEmbeddedMessage, readers, task, downloaded, analysed,
                   toast>>
    /\ UIUnchangedCodec

\* click on "Hide Message" (disabled while isProcessing)
clickEmbed ==
    /\ userEvents < MaxEvents
    /\ userEvents' = userEvents + 1
    /\ ~isProcessing
    /\ IF selectedImage = NoFile
       THEN /\ toast' = "Error: Please select an image first"
            /\ UNCHANGED <<isProcessing, task>>
       ELSE IF trim(secretMessage) = <<>>
       THEN /\ toast' = "Error: Please enter a message to hide"
            /\ UNCHANGED <<isProcessing, task>>
       ELSE /\ isProcessing' = TRUE
            /\ task' = [kind |-> "embedTimer", preview |-> imagePreview,
                        secret |-> secretMessage, canvas |-> NoImage]
            /\ UNCHANGED toast
    /\ UNCHANGED <<selectedImage, secretMessage, extractedMessage, imagePreview,
                   hasEmbeddedMessage, readers, downloaded, analysed>>
    /\ UIUnchangedCodec

\* the setTimeout callback of embedMessage: img.src = imagePreview
embedTimeout ==
    /\ task.kind = "embedTimer"
    /\ task' = [task EXCEPT !.kind = "embedLoad"]
    /\ UNCHANGED <<selectedImage, secretMessage, extractedMessage, isProcessing,
                   imagePreview, hasEmbeddedMessage, readers, downloaded,
                   analysed, toast, userEvents>>
    /\ UIUnchangedCodec

\* img.onload of embedMessage, up to canvas.toBlob
embedOnload ==
    /\ task.kind = "embedLoad"
    /\ Decodes(task.preview)
    /\ task' = [task EXCEPT
                  !.kind = "embedBlob",
                  !.canvas = [width |-> task.preview.img.width,
                              height |-> task.preview.img.height,
                              data |-> componentEmbed(task.preview.img.data,
                                                      task.secret)]]
    /\ UNCHANGED <<selectedImage, secretMessage, extractedMessage, isProcessing,
                   imagePreview, hasEmbeddedMessage, readers, downloaded,
                   analysed, toast, userEvents>>
    /\ UIUnchangedCodec

\* the image of embedMessage fails to load: no handler is installed
embedLoadError ==
    /\ task.kind = "embedLoad"
    /\ ~Decodes(task.preview)
    /\ task' = Idle
    /\ UNCHANGED <<selectedImage, secretMessage, extractedMessage, isProcessing,
                   imagePreview, hasEmbeddedMessage, readers, downloaded,
                   analysed, toast, userEvents>>
    /\ UIUnchangedCodec

\* the toBlob callback of embedMessage
embedToBlob ==
    /\ task.kind = "embedBlob"
    /\ task' = Idle
    /\ \E blob \in BOOLEAN :
         IF blob
         THEN /\ downloaded' = [type |-> "image", origin |-> "embed",
                                img |-> task.canvas]
              /\ hasEmbeddedMessage' = TRUE
              /\ isProcessing' = FALSE
              /\ toast' = "Success"
         ELSE UNCHANGED <<downloaded, hasEmbeddedMessage, isProcessing, toast>>
    /\ UNCHANGED <<selectedImage, secretMessage, extractedMessage, imagePreview,
                   readers, analysed, userEvents>>
    /\ UIUnchangedCodec

\* click on "Extract Message" (disabled while isProcessing)
clickExtract ==
    /\ userEvents < MaxEvents
    /\ userEvents' = userEvents + 1
    /\ ~isProcessing
    /\ IF selectedImage = NoFile
       THEN /\ toast' = "Error: Please select an image first"
            /\ UNCHANGED <<isProcessing, task>>
       ELSE /\ isProcessing' = TRUE
            /\ task' = [kind |-> "extractTimer", preview |-> imagePreview,
                        secret |-> <<>>, canvas |-> NoImage]
            /\ UNCHANGED toast
    /\ UNCHANGED <<selectedImage, secretMessage, extractedMessage, imagePreview,
                   hasEmbeddedMessage, readers, downloaded, analysed>>
    /\ UIUnchangedCodec

\* the setTimeout callback of extractMessage: img.src = imagePreview
extractTimeout ==
    /\ task.kind = "extractTimer"
    /\ task' = [task EXCEPT !.kind = "extractLoad"]
    /\ UNCHANGED <<selectedImage, secretMessage, extractedMessage, isProcessing,
                   imagePreview, hasEmbeddedMessage, readers, downloaded,
                   analysed, toast, userEvents>>
    /\ UIUnchangedCodec

\* img.onload of extractMessage
extractOnload ==
    /\ task.kind = "extractLoad"
    /\ Decodes(task.preview)
    /\ LET extractedMsg == simulateLSBExtraction(task.preview.img)
       IN  IF extractedMsg # EmptyText
           THEN /\ extractedMessage' = extractedMsg
                /\ hasEmbeddedMessage' = TRUE
                /\ toast' = "Analysis Complete"
           ELSE /\ extractedMessage' = NoContentNotice
                /\ hasEmbeddedMessage' = FALSE
                /\ toast' = "No Hidden Content"
    /\ isProcessing' = FALSE
    /\ analysed' = task.preview
    /\ task' = Idle
    /\ UNCHANGED <<selectedImage, secretMessage, imagePreview, readers,
                   downloaded, userEvents>>
    /\ UIUnchangedCodec

\* img.onerror of extractMessage
extractOnerror ==
    /\ task.kind = "extractLoad"
    /\ ~Decodes(task.preview)
    /\ isProcessing' = FALSE
    /\ toast' = "Error: Failed to analyze image data"
    /\ task' = Idle
    /\ UNCHANGED <<selectedImage, secretMessage, extractedMessage, imagePreview,
                   hasEmbeddedMessage, readers, downloaded, analysed, userEvents>>
    /\ UIUnchangedCodec

UIInitial ==
    /\ selectedImage = NoFile
    /\ secretMessage = <<>>
    /\ extractedMessage = EmptyText
    /\ isProcessing = FALSE
    /\ imagePreview = NoFile
    /\ hasEmbeddedMessage = FALSE
    /\ readers = {}
    /\ task = Idle
    /\ downloaded = NoFile
    /\ analysed = NoFile
    /\ toast = "none"
    /\ userEvents = 0

----------------------------------------------------------------------------
(* The codec as a state machine: an input is chosen, one of the two embeds *)
(* is applied to it, and one of the two extracts is applied to the input   *)
(* or to the embedded image.                                               *)

NoResult == [success |-> FALSE, error |-> "none"]

\* No encryptFile / decryptFile call has been made.
CipherInitial ==
    /\ fileData = <<>>
    /\ password = <<>>
    /\ rng = [salt |-> <<>>, iv |-> <<>>]
    /\ encFault = "none"
    /\ encResult = NoResult
    /\ encLog = <<>>
    /\ cpc = "start"
    /\ container = <<>>
    /\ modification = [kind |-> "none", offset |-> 0]
    /\ decPassword = <<>>
    /\ decFault = "none"
    /\ decResult = NoResult
    /\ kdfCalls = 0

\* No call is in flight.
Calls == 1..MaxInFlight
NoFrame == [salt |-> <<>>, iv |-> <<>>, key |-> 0, data |-> <<>>, work |-> <<>>]
NoCall == [kind |-> "none", args |-> <<>>, pc |-> "done", drawn |-> 0,
           result |-> NoResult]
\* the text tool before any text is entered
TextInitial ==
    /\ inputText = <<>>
    /\ keyField = 0
    /\ outputText = <<>>
    /\ restored = <<>>
    /\ tpc = "input"

ConcInitial ==
    /\ calls = [c \in Calls |-> NoCall]
    /\ frames = [c \in Calls |-> NoFrame]

Init ==
    /\ imageData \in Images
    /\ message \in Messages
    /\ pc = "input"
    /\ embedApi = "none"
    /\ embedOutcome = "none"
    /\ embedResult = NoResult
    /\ canvasData = <<>>
    /\ stego = NoImage
    /\ extractApi = "none"
    /\ extractSource = "none"
    /\ extractOutcome = "none"
    /\ extractResult = NoResult
    /\ bitsRead = 0
    /\ console = <<>>
    /\ earlier = <<>>
    /\ UIInitial
    /\ CipherInitial
    /\ TextInitial
    /\ ConcInitial

ProcessorEmbed ==
    /\ pc = "input"
    /\ pc' = "embedded"
    /\ embedApi' = "processor"
    /\ stego' = Processor_embedMessage(imageData, message)
    /\ imageData' = inputAfterEmbed(imageData, message)
    /\ console' = console \o Processor_embedLog(imageData, message)
    /\ UNCHANGED <<message, embedOutcome, embedResult, canvasData,
                   extractApi, extractSource, extractOutcome, extractResult,
                   bitsRead, earlier>>
    /\ UNCHANGED <<uiVars, cipherVars, concVars, textVars>>

\* SteganographyProcessor.embedMessage is called again, on the image the
\* first call returned and with another message
ProcessorReEmbed ==
    /\ pc = "embedded"
    /\ embedApi = "processor"
    /\ earlier = <<>>
    /\ \E m2 \in ReMessages :
         /\ message' = m2
         /\ stego' = Processor_embedMessage(stego, m2)
         /\ console' = console \o Processor_embedLog(stego, m2)
    /\ earlier' = <<message>>
    /\ UNCHANGED <<imageData, pc, embedApi, embedOutcome, embedResult,
                   canvasData, extractApi, extractSource, extractOutcome,
                   extractResult, bitsRead>>
    /\ UNCHANGED <<uiVars, cipherVars, concVars, textVars>>

FileEmbed ==
    /\ pc = "input"
    /\ \E outcome \in Outcomes :
         LET r == embedMessage(imageData, message, outcome)
         IN  /\ embedOutcome' = outcome
             /\ embedResult' = r.result
             /\ canvasData' = r.canvas
             /\ stego' = r.blob
    /\ pc' = "embedded"
    /\ embedApi' = "file"
    /\ UNCHANGED <<imageData, message, extractApi, extractSource,
                   extractOutcome, extractResult, bitsRead, console, earlier>>
    /\ UNCHANGED <<uiVars, cipherVars, concVars, textVars>>

\* The image an extract is applied to.
Source(s) == IF s = "input" THEN imageData ELSE stego

Sources == IF pc = "input" THEN {"input"}
           ELSE IF stego # NoImage THEN {"stego"} ELSE {}

ProcessorExtract ==
    /\ pc \in {"input", "embedded"}
    /\ \E s \in Sources :
         LET r == Processor_extractMessage(Source(s))
         IN  /\ extractSource' = s
             /\ extractResult' = r.result
             /\ bitsRead' = r.bits
             /\ console' = console \o Processor_extractLog(Source(s))
    /\ extractApi' = "processor"
    /\ pc' = "extracted"
    /\ UNCHANGED <<imageData, message, embedApi, embedOutcome, embedResult,
                   canvasData, stego, extractOutcome, earlier>>
    /\ UNCHANGED <<uiVars, cipherVars, concVars, textVars>>

FileExtract ==
    /\ pc \in {"input", "embedded"}
    /\ \E s \in Sources : \E outcome \in Outcomes \ {"noblob"} :
         /\ extractSource' = s
         /\ extractOutcome' = outcome
         /\ extractResult' = extractMessage(Source(s), outcome)
    /\ extractApi' = "file"
    /\ pc' = "extracted"
    /\ UNCHANGED <<imageData, message, embedApi, embedOutcome, embedResult,
                   canvasData, stego, bitsRead, console, earlier>>
    /\ UNCHANGED <<uiVars, cipherVars, concVars, textVars>>

Next == ProcessorEmbed \/ FileEmbed \/ ProcessorExtract \/ FileExtract

Spec == Init /\ [][Next]_vars

----------------------------------------------------------------------------
(* The component as a state machine: user events and browser callbacks.    *)

InitUI ==
    /\ imageData = NoImage
    /\ message = <<>>
    /\ pc = "input"
    /\ embedApi = "none"
    /\ embedOutcome = "none"
    /\ embedResult = NoResult
    /\ canvasData = <<>>
    /\ stego = NoImage
    /\ extractApi = "none"
    /\ extractSource = "none"
    /\ extractOutcome = "none"
    /\ extractResult = NoResult
    /\ bitsRead = 0
    /\ console = <<>>
    /\ earlier = <<>>
    /\ UIInitial
    /\ CipherInitial
    /\ TextInitial
    /\ ConcInitial

NextUI ==
    \/ handleImageSelect
    \/ readerOnload
    \/ setSecretMessage
    \/ clickEmbed
    \/ embedTimeout
    \/ embedOnload
    \/ embedLoadError
    \/ embedToBlob
    \/ clickExtract
    \/ extractTimeout
    \/ extractOnload
    \/ extractOnerror

SpecUI == InitUI /\ [][NextUI]_vars

----------------------------------------------------------------------------
(* Vocabulary of the properties *)

\* one payload bit per R, G, B byte
capacityBits == 3 * imageData.width * imageData.height

framedBitsProcessor == Len(Processor_stringToBinary(message \o DELIMITER))
framedBitsFile == Len(stringToBinary(message \o MESSAGE_DELIMITER))

\* The browser decoded the image handed to the file-based function.
Decoded(outcome) == outcome \in {"ok", "noblob"}

\* extract was applied to the image that the embed of the same pair returned
ProcessorPair ==
    /\ pc = "extracted"
    /\ embedApi = "processor" /\ extractApi = "processor"
    /\ extractSource = "stego"

FilePair ==
    /\ pc = "extracted"
    /\ embedApi = "file" /\ extractApi = "file"
    /\ extractSource = "stego"
    /\ embedResult.success
    /\ Decoded(extractOutcome)

Recovered(m) == extractResult = [success |-> TRUE, message |-> m]

\* C1: (ImageData pair) for every non-empty message whose framed length, at
\* 8 bits per character with the 4-NUL delimiter, is at most 3*W*H,
\* extractMessage(embedMessage(image, m)) succeeds with message m.
C1_RoundTripProcessor ==
    ( /\ ProcessorPair
      /\ Len(message) >= 1
      /\ 8 * (Len(message) + Len(DELIMITER)) <= capacityBits )
    => Recovered(message)

\* C2: (file-based pair) whenever embedMessage succeeds with a non-empty
\* message m, extractMessage on the stored pixels succeeds with message m.
C2_RoundTripFile ==
    (FilePair /\ Len(message) >= 1) => Recovered(message)

\* C3: for the empty message and an image with room for the delimiter,
\* extract(embed(image, "")) succeeds and yields the empty string.
C3_RoundTripEmpty ==
    ( /\ message = <<>>
      /\ \/ ProcessorPair /\ framedBitsProcessor <= capacityBits
         \/ FilePair )
    => Recovered(<<>>)

\* The delimiter occurs in m \o d before the place where embed appended it.
DelimiterInContent(m, d) == splitFirst(m \o d, d) # m

\* C4: for every message that contains the delimiter as ordinary content
\* (or ends with characters completing it early) and fits the image,
\* extract(embed(image, m)) returns exactly m.
C4_RoundTripDelimiterContent ==
    ( /\ ProcessorPair
      /\ DelimiterInContent(message, DELIMITER)
      /\ framedBitsProcessor <= capacityBits )
    => Recovered(message)

\* Byte-wise comparison of an embed's output with its input.
NonDestructive(in, out, framedBits) ==
    /\ Len(out) = Len(in)
    /\ \A q \in 1..Len(in) :
         LET j == q - 1
             position == 3 * (j \div 4) + (j % 4)
         IN  IF j % 4 = 3 THEN out[q] = in[q]
             ELSE IF position >= framedBits THEN out[q] = in[q]
             ELSE out[q] \div 2 = in[q] \div 2

\* C5: in the buffer an embed returns, every alpha byte and every R/G/B byte
\* at or beyond the framed bit length equals the input byte, and every
\* R/G/B byte within the framed length keeps its upper 7 bits.
C5_NonDestructive ==
    /\ (embedApi = "processor")
         => NonDestructive(imageData.data, stego.data, framedBitsProcessor)
    /\ (embedApi = "file" /\ Decoded(embedOutcome))
         => /\ NonDestructive(imageData.data, canvasData, framedBitsFile)
            /\ stego # NoImage => stego.data = canvasData

C5_Witness ==
    /\ embedApi = "processor"
    /\ framedBitsProcessor < capacityBits
    /\ stego.data # imageData.data
    /\ \E q \in 1..Len(imageData.data) : imageData.data[q] % 4 >= 2

\* C6: (file-based embedMessage) a message whose framed bit length is exactly
\* 3*W*H is embedded successfully; one whose framed bit length exceeds 3*W*H
\* is rejected with 'Message too long' and no pixel is written.
C6_CapacityBoundary ==
    (embedApi = "file")
    => /\ (framedBitsFile = capacityBits /\ embedOutcome = "ok")
            => /\ embedResult = [success |-> TRUE]
               /\ SubSeq(lsbStream(stego.data), 1, framedBitsFile)
                    = stringToBinary(message \o MESSAGE_DELIMITER)
       /\ (framedBitsFile > capacityBits /\ Decoded(embedOutcome))
            => /\ ~embedResult.success
               /\ embedResult.error = "Message too long"
               /\ canvasData = imageData.data
               /\ stego = NoImage

C6_Witness ==
    /\ embedApi = "file"
    /\ framedBitsFile = capacityBits
    /\ embedResult.success
    /\ stego.data # imageData.data

\* C7: SteganographyProcessor.embedMessage never returns an image in which
\* only a prefix of the framed message has been written.
C7_NoPartialEmbedding ==
    ~ ( /\ embedApi = "processor"
        /\ ~Processor_checkCapacity(imageData, message)
        /\ stego # NoImage
        /\ lsbStream(stego.data)
             = SubSeq(Processor_stringToBinary(message \o DELIMITER),
                      1, capacityBits) )

\* Would the file-based embed take a message of n characters for this image?
Accepts(n) == embedMessage(imageData, [i \in 1..n |-> 97], "ok").result.success

\* C8: the N of 'Max capacity: N characters' is the largest message length
\* the file-based embedMessage accepts for the image.
C8_ReportedCapacity ==
    ( /\ embedApi = "file"
      /\ ~embedResult.success
      /\ embedResult.error = "Message too long" )
    => /\ Accepts(embedResult.maxChars)
       /\ ~Accepts(embedResult.maxChars + 1)

\* The text carried by the byte-aligned LSB stream of the extracted image.
StreamText == binaryToString(lsbStream(Source(extractSource).data))

ExtractDelimiter == IF extractApi = "processor" THEN DELIMITER
                    ELSE MESSAGE_DELIMITER

\* C9: each extractMessage returns success only if the delimiter occurs in
\* the byte-aligned LSB stream, the returned message then is the text before
\* its first occurrence, and without a delimiter the result is the failure.
C9_ExactFraming ==
    ( /\ pc = "extracted"
      /\ extractApi = "file" => Decoded(extractOutcome) )
    => /\ extractResult.success
            => /\ includes(StreamText, ExtractDelimiter)
               /\ extractResult.message
                    = splitFirst(StreamText, ExtractDelimiter)
       /\ ~includes(StreamText, ExtractDelimiter)
            => extractResult = notFound

C9_Witness ==
    /\ pc = "extracted"
    /\ extractApi = "file"
    /\ extractResult.success
    /\ Len(StreamText) > Len(extractResult.message) + Len(MESSAGE_DELIMITER)

\* C10: for every image that never went through embed, the component's
\* extract handler reports no hidden content and leaves hasEmbeddedMessage
\* false, whatever the image's least-significant bits are.
C10_VirginExtraction ==
    ( /\ toast \in {"Analysis Complete", "No Hidden Content"}
      /\ analysed.origin = "virgin" )
    => /\ extractedMessage = NoContentNotice
       /\ ~hasEmbeddedMessage

----------------------------------------------------------------------------
(* The concrete scenario: "hi" in a 10 x 10 fully black image *)

HiScenario ==
    /\ imageData = BlackImage
    /\ message = <<104, 105>>
    /\ embedApi = "processor"

\* 0-based indices of the bytes that embed changed
ChangedBytes ==
    { q - 1 : q \in { x \in 1..Len(imageData.data) :
                        stego.data[x] # imageData.data[x] } }

\* C11: embedding "hi" into the 10x10 black image yields a buffer in which
\* exactly (2 + delimiter_len) * 8 bytes differ from the original, and
\* extract on that buffer recovers "hi".
C11_HiScenario ==
    HiScenario
    => /\ Cardinality(ChangedBytes) = (2 + Len(DELIMITER)) * 8
       /\ ProcessorPair => Recovered(<<104, 105>>)

\* "hi" is 01101000 01101001: the 1 bits are bits 1, 2, 4, 9, 10, 12, 15 of
\* the frame, carried by the bytes 1, 2, 5, 12, 13, 16, 20 of the buffer.
HiOneBits == {1, 2, 4, 9, 10, 12, 15}

\* C11 (amended): exactly the 7 R/G/B bytes whose frame bit is 1 differ,
\* all among the first 48 channel positions and only in their LSB, and
\* extract recovers "hi".
C11_HiScenarioOnes ==
    HiScenario
    => /\ ChangedBytes = { 4 * (k \div 3) + (k % 3) : k \in HiOneBits }
       /\ Cardinality(ChangedBytes) = 7
       /\ \A j \in ChangedBytes :
            /\ 3 * (j \div 4) + (j % 4) < (2 + Len(DELIMITER)) * 8
            /\ stego.data[j + 1] = imageData.data[j + 1] + 1
       /\ ProcessorPair => Recovered(<<104, 105>>)

C11_Witness ==
    /\ HiScenario
    /\ ProcessorPair
    /\ extractResult.success
    /\ bitsRead = 48

\* A non-empty message of 8-bit characters, none of them NUL, that does not
\* complete either delimiter early.
PlainMessage ==
    /\ Len(message) >= 1
    /\ \A i \in 1..Len(message) : message[i] >= 1 /\ message[i] <= 255
    /\ ~DelimiterInContent(message, DELIMITER)
    /\ ~DelimiterInContent(message, MESSAGE_DELIMITER)

\* C12: an image written by either embed of steganographyUtils.ts is decoded
\* to the original message by either extract of that file.
C12_DelimiterAgreement ==
    ( /\ pc = "extracted"
      /\ extractSource = "stego"
      /\ PlainMessage
      /\ embedApi = "processor" => framedBitsProcessor <= capacityBits
      /\ extractApi = "file" => Decoded(extractOutcome) )
    => Recovered(message)

----------------------------------------------------------------------------
(* File encryption: src/src/utils/fileEncryption.ts *)

SaltLength == 16    \* new Uint8Array(16)
IvLength == 12      \* new Uint8Array(12)
TagLength == 16     \* AES-GCM appends a 128-bit tag (default tagLength)
HeaderLength == SaltLength + IvLength

\* "correct-password" and a second password, as UTF-16 code units
CorrectPassword ==
    <<99, 111, 114, 114, 101, 99, 116, 45, 112, 97, 115, 115, 119, 111, 114, 100>>
OtherPassword == <<112, 119>>
Passwords == {CorrectPassword, OtherPassword}

FileBytes == {0, 255}
RECURSIVE ByteSeqs(_)
ByteSeqs(k) ==
    IF k = 0 THEN {<<>>}
    ELSE LET shorter == ByteSeqs(k - 1)
         IN  shorter \cup { Append(s, b) : s \in { t \in shorter : Len(t) = k - 1 },
                                           b \in FileBytes }
Files == ByteSeqs(MaxFileLen)

\* The values crypto.getRandomValues can return: MaxDraw + 1 salts and
\* MaxDraw + 1 nonces.
Draws == 0..MaxDraw
Salt(s) == [i \in 1..SaltLength |-> (97 * s + 13 * i) % 256]
Iv(v) == [i \in 1..IvLength |-> (59 * v + 29 * i + 7) % 256]

\* encoder.encode(password)
RECURSIVE encode(_)
encode(text) == IF Len(text) = 0 THEN <<>>
                ELSE utf8(Head(text)) \o encode(Tail(text))

\* sum of bytes[i] * (2 i + 1): changes whenever one bit of one byte changes
RECURSIVE weigh(_)
weigh(bytes) ==
    IF Len(bytes) = 0 THEN 0
    ELSE weigh(SubSeq(bytes, 1, Len(bytes) - 1))
            + bytes[Len(bytes)] * (2 * Len(bytes) + 1)

\* PBKDF2 (100000 iterations, SHA-256) to an AES-GCM key, as a function of
\* the password bytes and the salt that tells apart the passwords and the
\* salts of the model.
deriveKey_saltOnly(pwd, salt) == weigh(salt)
deriveKey(pwd, salt) == 1000 * weigh(encode(pwd)) + weigh(salt)

\* The contract of AES-GCM on a stand-in cipher: a keystream from (key, iv)
\* added to the plaintext, followed by a tag over key, iv and ciphertext
\* that no single-bit change of any of them leaves intact.
keystream(key, iv, i) == (key + weigh(iv) + 31 * i) % 256

gcmTag_headerOnly(key, iv, ct) ==
    LET ofIv == weigh(iv)
    IN  [t \in 1..TagLength |-> (key * t + ofIv * (t + 1)) % 256]
gcmTag(key, iv, ct) ==
    LET ofIv == weigh(iv)
        ofCt == weigh(ct)
    IN  [t \in 1..TagLength |->
            (key * t + ofIv * (t + 1) + ofCt * (t + 2) + Len(ct)) % 256]

\* crypto.subtle.encrypt({name: 'AES-GCM', iv}, key, fileData)
subtleEncrypt_noTag(key, iv, data) ==
    [i \in 1..Len(data) |-> (data[i] + keystream(key, iv, i)) % 256]
subtleEncrypt(key, iv, data) ==
    LET ct == [i \in 1..Len(data) |-> (data[i] + keystream(key, iv, i)) % 256]
    IN  ct \o gcmTag(key, iv, ct)

\* error.message of what the platform throws
NotReadable == "NotReadableError"       \* file.arrayBuffer() rejected
OperationError == "OperationError"      \* crypto.subtle.decrypt rejected
RangeError == "RangeError"              \* typed array view past the buffer
InvalidFormat == "Invalid encrypted file format"

\* The message of the OperationError thrown for data shorter than the tag is
\* the platform's: the one of a failed verification, or one of its own.
DataTooSmall == "The provided data is too small"
TooSmallMessages == {OperationError, DataTooSmall}

\* crypto.subtle.decrypt: throws OperationError unless the tag verifies
subtleDecrypt(key, iv, data, tooSmall) ==
    IF Len(data) < TagLength
    THEN [ok |-> FALSE, error |-> tooSmall, data |-> <<>>]
    ELSE LET n == Len(data) - TagLength
             ct == SubSeq(data, 1, n)
             tag == SubSeq(data, n + 1, Len(data))
         IN  IF tag # gcmTag(key, iv, ct)
             THEN [ok |-> FALSE, error |-> OperationError, data |-> <<>>]
             ELSE [ok |-> TRUE, error |-> "none",
                   data |-> [i \in 1..n |->
                                (ct[i] + 256 - keystream(key, iv, i)) % 256]]

NotSupported == "NotSupportedError"     \* importKey / deriveKey rejected

\* the step of a call that throws, if any
EncFaults == {"none", "derive", "read", "encrypt"}
DecFaults == {"none", "read", "derive"}

\* error.message of what the failing step throws
Thrown(step) == IF step = "read" THEN NotReadable
                ELSE IF step = "derive" THEN NotSupported
                ELSE OperationError

\* the step lies inside the try block of its function
guarded_fromRead(step) == step # "derive"
guarded(step) == TRUE

\* how the promise settles when a step throws: the catch block resolves it
\* with a failure result; outside the try block it would reject
failing(step) ==
    IF guarded(step)
    THEN [success |-> FALSE, error |-> Thrown(step)]
    ELSE [success |-> FALSE, rejected |-> Thrown(step)]

\* the nonce encryptFile uses is the one it has just drawn
freshIv_static(drawn) == [i \in 1..IvLength |-> 0]
freshIv(drawn) == drawn

\* resultView.set(salt, 0); resultView.set(iv, 16); resultView.set(.., 28)
\* on a buffer of 16 + 12 + encryptedData.byteLength bytes
layout_ivFirst(salt, iv, encryptedData) ==
    [k \in 1..(SaltLength + IvLength + Len(encryptedData)) |->
        IF k <= IvLength THEN iv[k]
        ELSE IF k <= SaltLength + IvLength THEN salt[k - IvLength]
        ELSE encryptedData[k - SaltLength - IvLength]]
layout(salt, iv, encryptedData) ==
    [k \in 1..(SaltLength + IvLength + Len(encryptedData)) |->
        IF k <= SaltLength THEN salt[k]
        ELSE IF k <= SaltLength + IvLength THEN iv[k - SaltLength]
        ELSE encryptedData[k - SaltLength - IvLength]]

\* encryptFile(file, password), given what getRandomValues returns for the
\* salt and the nonce and the step that throws, if any
encryptFile(file, pwd, saltDrawn, ivDrawn, fault) ==
    LET salt == saltDrawn
        iv == freshIv(ivDrawn)
        key == deriveKey(pwd, salt)
        encryptedData == subtleEncrypt(key, iv, file)
        result == layout(salt, iv, encryptedData)
    IN  IF fault # "none"
        THEN failing(fault)
        ELSE [success |-> TRUE, data |-> result, salt |-> salt, iv |-> iv]

\* the guard of decryptFile on the length of the file
tooShort_16(byteLength) == byteLength < 16
tooShort_44(byteLength) == byteLength < 44
tooShort(byteLength) == byteLength < 28

\* new Uint8Array(encryptedData, 16, 12)
ivOf_12(encryptedData) == SubSeq(encryptedData, 13, 24)
ivOf(encryptedData) == SubSeq(encryptedData, 17, 28)

\* decryptFile(encryptedFile, password): the result and the number of
\* deriveKey calls made, given whether reading the file fails and the
\* platform's message for data shorter than the tag
decryptFile(encryptedData, pwd, fault, tooSmall) ==
    IF fault = "read"
    THEN [result |-> failing("read"), kdf |-> 0]
    ELSE IF tooShort(Len(encryptedData))
    THEN [result |-> [success |-> FALSE, error |-> InvalidFormat], kdf |-> 0]
    ELSE IF Len(encryptedData) < 28
    THEN [result |-> [success |-> FALSE, error |-> RangeError], kdf |-> 0]
    ELSE IF fault = "derive"
    THEN [result |-> failing("derive"), kdf |-> 1]
    ELSE LET salt == SubSeq(encryptedData, 1, 16)
             iv == ivOf(encryptedData)
             content == SubSeq(encryptedData, 29, Len(encryptedData))
             key == deriveKey(pwd, salt)
             decryptedData == subtleDecrypt(key, iv, content, tooSmall)
         IN  IF decryptedData.ok
             THEN [result |-> [success |-> TRUE, data |-> decryptedData.data,
                               salt |-> salt, iv |-> iv],
                   kdf |-> 1]
             ELSE [result |-> [success |-> FALSE,
                               error |-> decryptedData.error],
                   kdf |-> 1]

CipherUnchangedOthers ==
    UNCHANGED <<codecVars, uiVars, concVars, textVars>>

\* one call of encryptFile
EncryptCall(file, pwd, s, v, fault) ==
        /\ fileData' = file
        /\ password' = pwd
        /\ rng' = [salt |-> Salt(s), iv |-> Iv(v)]
        /\ encFault' = fault
        /\ encResult' = encryptFile(file, pwd, Salt(s), Iv(v), fault)
        /\ encLog' = Append(encLog,
                        [password |-> pwd, salt |-> Salt(s), ivDrawn |-> Iv(v),
                         iv |-> freshIv(Iv(v)),
                         key |-> deriveKey(pwd, Salt(s)), result |-> encResult'])
        /\ container' = IF encResult'.success THEN encResult'.data ELSE <<>>
        /\ cpc' = "encrypted"
        /\ UNCHANGED <<modification, decPassword, decFault, decResult, kdfCalls>>
        /\ CipherUnchangedOthers

Encrypt ==
    /\ cpc = "start"
    /\ \E file \in Files, pwd \in Passwords, s \in Draws, v \in Draws,
          fault \in EncFaults :
            EncryptCall(file, pwd, s, v, fault)

\* a further call of encryptFile, on the same file
EncryptAgain ==
    /\ cpc = "encrypted"
    /\ Len(encLog) < MaxCalls
    /\ \E pwd \in Passwords, s \in Draws, v \in Draws :
            EncryptCall(fileData, pwd, s, v, "none")

\* the stored container has one bit flipped
FlipBit ==
    /\ cpc = "encrypted" /\ encResult.success
    /\ \E offset \in 0..(Len(container) - 1), b \in 0..7 :
         LET old == container[offset + 1]
             new == IF (old \div (2 ^ b)) % 2 = 1 THEN old - 2 ^ b ELSE old + 2 ^ b
         IN  /\ container' = [container EXCEPT ![offset + 1] = new]
             /\ modification' = [kind |-> "flip", offset |-> offset]
    /\ cpc' = "modified"
    /\ UNCHANGED <<fileData, password, rng, encFault, encResult, encLog,
                   decPassword, decFault, decResult, kdfCalls>>
    /\ CipherUnchangedOthers

\* the stored container is cut to its first n bytes
Truncate ==
    /\ cpc = "encrypted" /\ encResult.success
    /\ \E n \in 0..(Len(container) - 1) :
         /\ container' = SubSeq(container, 1, n)
         /\ modification' = [kind |-> "truncate", offset |-> n]
    /\ cpc' = "modified"
    /\ UNCHANGED <<fileData, password, rng, encFault, encResult, encLog,
                   decPassword, decFault, decResult, kdfCalls>>
    /\ CipherUnchangedOthers

\* one call of decryptFile on the container
Decrypt ==
    /\ cpc \in {"encrypted", "modified"} /\ encResult.success
    /\ \E pwd \in Passwords, fault \in DecFaults, tooSmall \in TooSmallMessages :
         LET r == decryptFile(container, pwd, fault, tooSmall)
         IN  /\ decPassword' = pwd
             /\ decFault' = fault
             /\ decResult' = r.result
             /\ kdfCalls' = r.kdf
    /\ cpc' = "decrypted"
    /\ UNCHANGED <<fileData, password, rng, encFault, encResult, encLog,
                   container, modification>>
    /\ CipherUnchangedOthers

NextCipher == Encrypt \/ FlipBit \/ Truncate \/ Decrypt

SpecCipher == InitUI /\ [][NextCipher]_vars

NextCalls == Encrypt \/ EncryptAgain

SpecCalls == InitUI /\ [][NextCalls]_vars

(* Vocabulary of the cipher properties *)

Untouched == modification.kind = "none"
Flipped == modification.kind = "flip"
Truncated == modification.kind = "truncate"

\* decryptFile ran to its end on what it was given
DecryptDone == cpc = "decrypted" /\ decFault = "none"

(* Claims about encryptFile / decryptFile *)

\* the container is the one encryptFile returned and the password is the
\* one it was encrypted with
SameContainerAndPassword ==
    /\ DecryptDone
    /\ Untouched
    /\ decPassword = password

\* C13: decrypting the container encryptFile returned for a non-empty file,
\* with the same password, succeeds and returns the bytes of the file.
C13_CipherRoundTrip ==
    (SameContainerAndPassword /\ Len(fileData) >= 1) =>
        /\ decResult.success
        /\ decResult.data = fileData

C13_Witness ==
    /\ SameContainerAndPassword
    /\ Len(fileData) >= 1
    /\ password = CorrectPassword
    /\ decResult.success
    /\ decResult.data = fileData

\* a failure result: success=false, an error, and no data
Failure(r) ==
    /\ ~r.success
    /\ "error" \in DOMAIN r
    /\ "data" \notin DOMAIN r

\* the untouched container is decrypted with another password
WrongPassword ==
    /\ DecryptDone
    /\ Untouched
    /\ decPassword # password

\* C14: decrypting the container of encryptFile(b, p1) with a password
\* p2 # p1 returns success=false with an error and no data, for every file b,
\* the empty one included.
C14_WrongPasswordRejected == WrongPassword => Failure(decResult)

C14_Witness ==
    /\ WrongPassword
    /\ fileData = <<>>
    /\ password = CorrectPassword
    /\ Failure(decResult)
    /\ decResult.error = OperationError

\* one bit of the ciphertext/tag region was flipped and the container is
\* decrypted with the password it was encrypted with
TamperedBody ==
    /\ DecryptDone
    /\ Flipped
    /\ modification.offset >= HeaderLength
    /\ decPassword = password

\* C15: after a single bit flip at byte offset 28 or later, decryptFile with
\* the correct password returns success=false and no data.
C15_TamperDetected == TamperedBody => Failure(decResult)

\* the flip is in a ciphertext byte (a non-empty file) ...
C15_Witness ==
    /\ TamperedBody
    /\ Len(fileData) >= 1
    /\ modification.offset = HeaderLength
    /\ Failure(decResult)

\* ... or in the last byte of the tag
C15_WitnessTag ==
    /\ TamperedBody
    /\ modification.offset = Len(container) - 1
    /\ Failure(decResult)

\* decryptFile was called on fewer than 28 bytes
ShortInput == cpc = "decrypted" /\ Len(container) < HeaderLength

\* C16: on an input shorter than 28 bytes decryptFile never invokes
\* deriveKey, and once the bytes are read it returns the format failure
\* 'Invalid encrypted file format'.
C16_MalformedContainer ==
    ShortInput =>
        /\ kdfCalls = 0
        /\ decFault = "none" =>
              /\ Failure(decResult)
              /\ decResult.error = InvalidFormat

C16_Witness ==
    /\ ShortInput
    /\ decFault = "none"
    /\ Len(container) = HeaderLength - 1
    /\ decResult.error = InvalidFormat
    /\ kdfCalls = 0

\* encryptFile returned a container for a 0-byte file and "correct-password"
EmptyFileScenario ==
    /\ cpc # "start"
    /\ fileData = <<>>
    /\ password = CorrectPassword
    /\ encResult.success

\* C17, as stated: the container of a 0-byte file under "correct-password"
\* is exactly 28 bytes long and decrypts, with the same password, to a
\* 0-byte buffer.
C17_EmptyFileContainer ==
    EmptyFileScenario =>
        /\ Len(encResult.data) = 28
        /\ SameContainerAndPassword =>
              (decResult.success /\ decResult.data = <<>>)

\* C17, amended: the container of a 0-byte file under "correct-password" is
\* exactly 44 bytes long (16 salt, 12 nonce, 16 tag of the empty ciphertext)
\* and decrypts, with the same password, to a 0-byte buffer.
C17_EmptyFileContainerWithTag ==
    EmptyFileScenario =>
        /\ Len(encResult.data) = 44
        /\ Len(encResult.data) = SaltLength + IvLength + TagLength
        /\ SameContainerAndPassword =>
              (decResult.success /\ decResult.data = <<>>)

C17_Witness ==
    /\ EmptyFileScenario
    /\ SameContainerAndPassword
    /\ Len(container) = 44
    /\ decResult.success
    /\ decResult.data = <<>>

FormatFailure == [success |-> FALSE, error |-> InvalidFormat]
DecryptFailure == [success |-> FALSE, error |-> OperationError]

\* decryptFile read its input and returned a failure
DecryptFailed == DecryptDone /\ ~decResult.success

Encrypting == { i \in 1..Len(encLog) : encLog[i].result.success }

\* the random source has not handed the same salt and nonce to two calls
FreshDraws ==
    \A i, j \in 1..Len(encLog) :
        i # j => <<encLog[i].salt, encLog[i].ivDrawn>> # <<encLog[j].salt, encLog[j].ivDrawn>>

\* C19: every encryptFile call encrypts under the salt and the nonce drawn
\* inside that call, and, the random source never repeating itself, no two
\* calls encrypt under the same (derived key, nonce) pair.
C19_NonceFreshness ==
    /\ \A i \in Encrypting :
          /\ encLog[i].result.salt = encLog[i].salt
          /\ encLog[i].result.iv = encLog[i].ivDrawn
          /\ encLog[i].iv = encLog[i].ivDrawn
          /\ Len(encLog[i].result.salt) = 16
          /\ Len(encLog[i].result.iv) = 12
    /\ FreshDraws =>
          \A i, j \in Encrypting :
              i # j => <<encLog[i].key, encLog[i].iv>> # <<encLog[j].key, encLog[j].iv>>

\* two calls with the same password and the same salt, hence the same key,
\* but different nonces
C19_Witness ==
    /\ Len(encLog) >= 2
    /\ {1, 2} \subseteq Encrypting
    /\ FreshDraws
    /\ encLog[1].key = encLog[2].key
    /\ encLog[1].iv # encLog[2].iv

----------------------------------------------------------------------------
(* Calls in flight at the same time: each await of encryptFile and
   decryptFile, and each image-load and toBlob callback of embedMessage and
   extractMessage, is a point where another call's step may run. *)

SampleContainer ==
    encryptFile(<<65>>, CorrectPassword, Salt(0), Iv(0), "none").data
SampleStego == embedMessage(MakeImage(8, 5, 0), <<97>>, "ok").blob

EncryptArgs == { [file |-> f, password |-> CorrectPassword] :
                    f \in {<<65>>, <<66, 67>>} }
DecryptArgs == { [container |-> SampleContainer, password |-> CorrectPassword],
                 [container |-> SampleContainer, password |-> OtherPassword],
                 [container |-> SubSeq(SampleContainer, 1, 20),
                  password |-> CorrectPassword] }
EmbedArgs == { [image |-> MakeImage(8, 5, 0), message |-> <<97>>],
               [image |-> MakeImage(8, 5, 1), message |-> <<104, 105>>] }
ExtractArgs == { [image |-> SampleStego], [image |-> MakeImage(8, 5, 1)] }

NewCalls ==
    { [kind |-> "encrypt", args |-> a, pc |-> "start", drawn |-> 0,
       result |-> NoResult] : a \in EncryptArgs }
    \cup { [kind |-> "decrypt", args |-> a, pc |-> "start", drawn |-> 0,
            result |-> NoResult] : a \in DecryptArgs }
    \cup { [kind |-> "embed", args |-> a, pc |-> "start", drawn |-> 0,
            result |-> NoResult] : a \in EmbedArgs }
    \cup { [kind |-> "extract", args |-> a, pc |-> "start", drawn |-> 0,
            result |-> NoResult] : a \in ExtractArgs }

\* The constants of a call (salt, iv, key, fileData, canvas ...) are locals
\* of its own activation.
slotOf_shared(c) == 1
slotOf(c) == c

frame(c) == frames[slotOf(c)]

ConcUnchangedOthers ==
    UNCHANGED <<codecVars, uiVars, cipherVars, textVars>>

\* call c moves to position p, with the locals of its activation set
Step(c, p, locals) ==
    /\ calls' = [calls EXCEPT ![c].pc = p]
    /\ frames' = [frames EXCEPT ![slotOf(c)] = locals]
    /\ ConcUnchangedOthers

\* call c returns r
Return(c, r) ==
    /\ calls' = [calls EXCEPT ![c].pc = "done", ![c].result = r]
    /\ UNCHANGED frames
    /\ ConcUnchangedOthers

At(c, kind, p) == calls[c].kind = kind /\ calls[c].pc = p

\* encryptFile: salt and iv are drawn
EncDraw(c) ==
    /\ At(c, "encrypt", "start")
    /\ \E d \in Draws :
         /\ calls' = [calls EXCEPT ![c].pc = "derive", ![c].drawn = d]
         /\ frames' = [frames EXCEPT ![slotOf(c)] =
                          [frame(c) EXCEPT !.salt = Salt(d), !.iv = freshIv(Iv(d))]]
    /\ ConcUnchangedOthers

\* encryptFile: await deriveKey(password, salt)
EncDerive(c) ==
    /\ At(c, "encrypt", "derive")
    /\ Step(c, "read",
            [frame(c) EXCEPT !.key = deriveKey(calls[c].args.password, frame(c).salt)])

\* encryptFile: await file.arrayBuffer()
EncRead(c) ==
    /\ At(c, "encrypt", "read")
    /\ Step(c, "encrypt", [frame(c) EXCEPT !.data = calls[c].args.file])

\* encryptFile: await crypto.subtle.encrypt
EncEncrypt(c) ==
    /\ At(c, "encrypt", "encrypt")
    /\ Step(c, "assemble",
            [frame(c) EXCEPT !.work = subtleEncrypt(frame(c).key, frame(c).iv,
                                                    frame(c).data)])

\* encryptFile: the container is assembled and returned
EncReturn(c) ==
    /\ At(c, "encrypt", "assemble")
    /\ Return(c, [success |-> TRUE,
                  data |-> layout(frame(c).salt, frame(c).iv, frame(c).work),
                  salt |-> frame(c).salt, iv |-> frame(c).iv])

\* decryptFile: await encryptedFile.arrayBuffer()
DecRead(c) ==
    /\ At(c, "decrypt", "start")
    /\ Step(c, "check", [frame(c) EXCEPT !.data = calls[c].args.container])

\* decryptFile: the length test, and the three views of the buffer
DecCheck(c) ==
    /\ At(c, "decrypt", "check")
    /\ IF tooShort(Len(frame(c).data))
       THEN Return(c, [success |-> FALSE, error |-> InvalidFormat])
       ELSE IF Len(frame(c).data) < 28
       THEN Return(c, [success |-> FALSE, error |-> RangeError])
       ELSE Step(c, "derive",
                 [frame(c) EXCEPT !.salt = SubSeq(frame(c).data, 1, 16),
                                  !.iv = ivOf(frame(c).data),
                                  !.work = SubSeq(frame(c).data, 29,
                                                  Len(frame(c).data))])

\* decryptFile: await deriveKey(password, salt)
DecDerive(c) ==
    /\ At(c, "decrypt", "derive")
    /\ Step(c, "decrypt",
            [frame(c) EXCEPT !.key = deriveKey(calls[c].args.password, frame(c).salt)])

\* decryptFile: await crypto.subtle.decrypt, and the return
DecDecrypt(c) ==
    /\ At(c, "decrypt", "decrypt")
    /\ \E tooSmall \in TooSmallMessages :
         LET r == subtleDecrypt(frame(c).key, frame(c).iv, frame(c).work, tooSmall)
         IN  IF r.ok
             THEN Return(c, [success |-> TRUE, data |-> r.data,
                             salt |-> frame(c).salt, iv |-> frame(c).iv])
             ELSE Return(c, [success |-> FALSE, error |-> r.error])

\* embedMessage: img.onload runs to the toBlob call, or rejects
EmbLoad(c) ==
    /\ At(c, "embed", "start")
    /\ LET r == embedMessage(calls[c].args.image, calls[c].args.message, "ok")
       IN  IF r.result.success
           THEN Step(c, "toblob", [frame(c) EXCEPT !.data = calls[c].args.image.data,
                                                   !.work = r.canvas])
           ELSE Return(c, [result |-> r.result, blob |-> NoImage])

\* embedMessage: the toBlob callback resolves with the canvas's content
EmbBlob(c) ==
    /\ At(c, "embed", "toblob")
    /\ Return(c, [result |-> [success |-> TRUE],
                  blob |-> [width |-> calls[c].args.image.width,
                            height |-> calls[c].args.image.height,
                            data |-> frame(c).work]])

\* extractMessage: the image is handed to the loader
ExtStart(c) ==
    /\ At(c, "extract", "start")
    /\ Step(c, "loading", frame(c))

\* extractMessage: img.onload reads the pixels, scans them and resolves
ExtLoad(c) ==
    /\ At(c, "extract", "loading")
    /\ calls' = [calls EXCEPT ![c].pc = "done",
                              ![c].result = extractMessage(calls[c].args.image, "ok")]
    /\ frames' = [frames EXCEPT ![slotOf(c)] =
                     [frame(c) EXCEPT !.data = calls[c].args.image.data]]
    /\ ConcUnchangedOthers

InitConc ==
    /\ imageData = NoImage
    /\ message = <<>>
    /\ pc = "input"
    /\ embedApi = "none"
    /\ embedOutcome = "none"
    /\ embedResult = NoResult
    /\ canvasData = <<>>
    /\ stego = NoImage
    /\ extractApi = "none"
    /\ extractSource = "none"
    /\ extractOutcome = "none"
    /\ extractResult = NoResult
    /\ bitsRead = 0
    /\ console = <<>>
    /\ earlier = <<>>
    /\ UIInitial
    /\ CipherInitial
    /\ TextInitial
    /\ calls \in [Calls -> NewCalls]
    /\ frames = [c \in Calls |-> NoFrame]

NextConc ==
    \E c \in Calls :
        \/ EncDraw(c)
        \/ EncDerive(c)
        \/ EncRead(c)
        \/ EncEncrypt(c)
        \/ EncReturn(c)
        \/ DecRead(c)
        \/ DecCheck(c)
        \/ DecDerive(c)
        \/ DecDecrypt(c)
        \/ EmbLoad(c)
        \/ EmbBlob(c)
        \/ ExtStart(c)
        \/ ExtLoad(c)

SpecConc == InitConc /\ [][NextConc]_vars

\* what the call returns when no other call is in flight
Alone(call) ==
    IF call.kind = "encrypt"
    THEN encryptFile(call.args.file, call.args.password,
                     Salt(call.drawn), Iv(call.drawn), "none")
    ELSE IF call.kind = "decrypt"
    THEN decryptFile(call.args.container, call.args.password, "none",
                     OperationError).result
    ELSE IF call.kind = "embed"
    THEN LET r == embedMessage(call.args.image, call.args.message, "ok")
         IN  [result |-> r.result, blob |-> r.blob]
    ELSE IF call.kind = "extract"
    THEN extractMessage(call.args.image, "ok")
    ELSE NoResult

Returned(c) == calls[c].kind # "none" /\ calls[c].pc = "done"
InFlight(c) == calls[c].pc \notin {"start", "done"}

\* C20: whatever the interleaving of the steps of the calls in flight, a call
\* returns exactly the result it returns when run alone.
C20_Independence ==
    \A c \in Calls : Returned(c) => calls[c].result = Alone(calls[c])

\* an embed call has returned its image while an encryptFile call on other
\* input is between its awaits
C20_Witness ==
    /\ Returned(1)
    /\ calls[1].kind = "embed"
    /\ calls[1].result.result.success
    /\ calls[2].kind = "encrypt"
    /\ calls[2].pc = "assemble"
    /\ calls[1].result = Alone(calls[1])

\* the promise resolved, with a result of the declared shape
Resolved(r) ==
    /\ "success" \in DOMAIN r
    /\ "rejected" \notin DOMAIN r
    /\ r.success => "data" \in DOMAIN r
    /\ ~r.success => "error" \in DOMAIN r

\* C21: whichever step fails (key derivation, file read, encryption,
\* decryption), the promise of encryptFile and of decryptFile resolves to a
\* result with success=false and an error, and a result with success=true
\* carries data; it never rejects.
C21_TypedResults ==
    /\ cpc # "start" => Resolved(encResult)
    /\ cpc = "decrypted" => Resolved(decResult)

\* encryptFile returned a container and the key derivation of decryptFile
\* then failed
C21_Witness ==
    /\ cpc = "decrypted"
    /\ encResult.success
    /\ "data" \in DOMAIN encResult
    /\ decFault = "derive"
    /\ ~tooShort(Len(container))
    /\ decResult = [success |-> FALSE, error |-> NotSupported]

\* the key derivation of encryptFile failed
C21_WitnessEncrypt ==
    /\ cpc = "encrypted"
    /\ encFault = "derive"
    /\ encResult = [success |-> FALSE, error |-> NotSupported]

\* the secret message text is among what was logged
MessageLogged ==
    \E i \in 1..Len(console) :
        console[i].label = "Embedding message:" /\ console[i].text = message

\* C22: no call of SteganographyProcessor.embedMessage or extractMessage
\* writes to the console, so the console never holds the secret message.
C22_NoConsoleOutput ==
    (embedApi \in {"none", "processor"} /\ extractApi \in {"none", "processor"})
        => (console = <<>> /\ ~MessageLogged)

\* C23: on an image SteganographyProcessor.embedMessage produced from a
\* non-empty message, extractMessage succeeds after collecting exactly the
\* framed bit length of LSBs and returns the text preceding the delimiter.
C23_EarlyStop ==
    (ProcessorPair /\ Len(message) >= 1) =>
        /\ extractResult.success
        /\ bitsRead = framedBitsProcessor
        /\ extractResult.message = splitFirst(message \o DELIMITER, DELIMITER)

----------------------------------------------------------------------------
(* SteganographyProcessor on images around and above the scan limit *)

\* width x height: 9,999, 10,002, 10,092 and 15,000 payload bits, and small
ScanDims == { <<3333, 1>>, <<3334, 1>>, <<1667, 2>>, <<58, 58>>, <<100, 50>>,
              <<101, 33>>, <<4, 4>> }
ScanImages == { MakeImage(d[1], d[2], p) : d \in ScanDims, p \in 0..MaxPattern }
ScanMessages == { <<>>, <<97>> }

InitScan ==
    /\ imageData \in ScanImages
    /\ message \in ScanMessages
    /\ pc = "input"
    /\ embedApi = "none"
    /\ embedOutcome = "none"
    /\ embedResult = NoResult
    /\ canvasData = <<>>
    /\ stego = NoImage
    /\ extractApi = "none"
    /\ extractSource = "none"
    /\ extractOutcome = "none"
    /\ extractResult = NoResult
    /\ bitsRead = 0
    /\ console = <<>>
    /\ earlier = <<>>
    /\ UIInitial
    /\ CipherInitial
    /\ TextInitial
    /\ ConcInitial

NextScan == ProcessorEmbed \/ ProcessorExtract

SpecScan == InitScan /\ [][NextScan]_vars

\* SteganographyProcessor.extractMessage has run
ProcessorExtracted == pc = "extracted" /\ extractApi = "processor"

\* the text of the whole byte-aligned LSB stream of the extracted image
WholeText == Processor_binaryToString(lsbStream(Source(extractSource).data))

FramedMessage == IF embedApi = "processor" THEN message \o DELIMITER
                 ELSE message \o MESSAGE_DELIMITER
FramedBinary == IF embedApi = "processor"
                THEN Processor_stringToBinary(FramedMessage)
                ELSE stringToBinary(FramedMessage)

\* C25: stringToBinary gives every character of the framed message exactly
\* 8 bits, most significant bit first: the framed bit length is
\* 8 * (len(message) + len(delimiter)) and bits 8i..8i+7 are character i.
C25_EightBitsPerCharacter ==
    embedApi \in {"processor", "file"} =>
        /\ Len(FramedBinary) = 8 * Len(FramedMessage)
        /\ \A i \in 0..(Len(FramedMessage) - 1) :
              parseInt2(SubSeq(FramedBinary, 8 * i + 1, 8 * i + 8))
                  = FramedMessage[i + 1]

\* C26: a successful encryptFile result is the salt in bytes 0-15, the nonce
\* in bytes 16-27 and the AES-GCM output from byte 28, 28 + its length in
\* all; its salt and iv fields are those bytes; and decryptFile reads salt,
\* nonce and ciphertext from the same offsets.
C26_ContainerLayout ==
    /\ (cpc # "start" /\ encResult.success) =>
          LET aead == subtleEncrypt(deriveKey(password, rng.salt), rng.iv, fileData)
          IN  /\ Len(encResult.data) = 28 + Len(aead)
              /\ Len(aead) = Len(fileData) + TagLength
              /\ SubSeq(encResult.data, 1, 16) = rng.salt
              /\ SubSeq(encResult.data, 17, 28) = rng.iv
              /\ SubSeq(encResult.data, 29, Len(encResult.data)) = aead
              /\ encResult.salt = SubSeq(encResult.data, 1, 16)
              /\ encResult.iv = SubSeq(encResult.data, 17, 28)
    /\ (cpc = "decrypted" /\ decResult.success) =>
          /\ decResult.salt = SubSeq(container, 1, 16)
          /\ decResult.iv = SubSeq(container, 17, 28)
          /\ subtleEncrypt(deriveKey(decPassword, decResult.salt), decResult.iv,
                           decResult.data)
                = SubSeq(container, 29, Len(container))

C26_Witness ==
    /\ cpc = "decrypted"
    /\ encResult.success
    /\ Len(fileData) >= 1
    /\ Len(encResult.data) = 28 + Len(fileData) + 16
    /\ decResult.success
    /\ decResult.salt = encResult.salt
    /\ decResult.iv = encResult.iv

\* a step in which SteganographyProcessor.embedMessage is called and returns
ProcessorEmbedStep ==
    /\ pc = "input"
    /\ pc' = "embedded"
    /\ embedApi' = "processor"

\* C27: SteganographyProcessor.embedMessage leaves every byte of the
\* caller's imageData as it was; the embedded bits are in the returned
\* ImageData only, whose width and height are the input's.
C27_InputUnchanged ==
    [][ProcessorEmbedStep =>
          /\ imageData' = imageData
          /\ stego'.width = imageData.width
          /\ stego'.height = imageData.height
          /\ stego'.data = embedBits(imageData.data,
                                     Processor_stringToBinary(message \o DELIMITER))]_vars

\* the returned image differs from the input, which still is the image of
\* the pattern it was made from
C27_Witness ==
    /\ pc = "embedded"
    /\ embedApi = "processor"
    /\ stego.data # imageData.data
    /\ imageData \in Images
    /\ Len(stego.data) = Len(imageData.data)

----------------------------------------------------------------------------
(* Two successive embeds of SteganographyProcessor into one image *)

InitReEmbed ==
    /\ imageData \in { MakeImage(d[1], d[2], p) : d \in ReDims, p \in 0..MaxPattern }
    /\ message \in ReMessages
    /\ pc = "input"
    /\ embedApi = "none"
    /\ embedOutcome = "none"
    /\ embedResult = NoResult
    /\ canvasData = <<>>
    /\ stego = NoImage
    /\ extractApi = "none"
    /\ extractSource = "none"
    /\ extractOutcome = "none"
    /\ extractResult = NoResult
    /\ bitsRead = 0
    /\ console = <<>>
    /\ earlier = <<>>
    /\ UIInitial
    /\ CipherInitial
    /\ TextInitial
    /\ ConcInitial

NextReEmbed == ProcessorEmbed \/ ProcessorReEmbed \/ ProcessorExtract

SpecReEmbed == InitReEmbed /\ [][NextReEmbed]_vars

\* m is not empty, does not contain the delimiter and fits the image
Embeddable(m) ==
    /\ Len(m) >= 1
    /\ ~includes(m, DELIMITER)
    /\ 8 * (Len(m) + Len(DELIMITER)) <= capacityBits

\* extract ran on embed(embed(image, m1), m2)
ReEmbedded ==
    /\ ProcessorPair
    /\ Len(earlier) = 1

\* C28: for non-empty, delimiter-free messages m1 and m2 that each fit,
\* extract(embed(embed(image, m1), m2)) returns m2, whichever is longer.
C28_ReEmbedOverwrites ==
    (ReEmbedded /\ Embeddable(earlier[1]) /\ Embeddable(message))
        => Recovered(message)

----------------------------------------------------------------------------
(* The component under the browser's event loop *)

\* A timer that is set fires, a FileReader that was started delivers its
\* load event, an <img> whose src was assigned fires load or error, and
\* canvas.toBlob calls its callback: each queued task is eventually run.
\* The user's own events (clicks, typing, file selection) are not forced.
extractLoads == task.kind = "extractLoad" /\ Decodes(task.preview)

\* extractLoads is the enabling condition of extractOnload, and every
\* extractOnload step ends it, so []<>~extractLoads is WF_vars(extractOnload)
\* written out.
SpecUIFair ==
    /\ InitUI
    /\ [][NextUI]_vars
    /\ WF_vars(readerOnload)
    /\ WF_vars(embedTimeout)
    /\ WF_vars(embedOnload)
    /\ WF_vars(embedLoadError)
    /\ WF_vars(embedToBlob)
    /\ WF_vars(extractTimeout)
    /\ WF_vars(extractOnerror)
    /\ []<>(~extractLoads)

\* the embed handler has just set isProcessing and queued its timer
EmbedStarted == isProcessing /\ task.kind = "embedTimer"

\* C29: once the embed handler sets isProcessing to true, isProcessing
\* eventually returns to false, on every outcome of the image load and of
\* the blob creation.
C29_BusyFlagReturns == EmbedStarted ~> ~isProcessing

----------------------------------------------------------------------------
(* Caesar cipher of the text tool: src/src/components/TextEncryption.tsx *)

\* the remainder operator % of JavaScript: the result has the sign of the
\* dividend
jsRem(a, n) == IF a >= 0 THEN a % n ELSE 0 - ((0 - a) % n)

\* String.fromCharCode: the code unit modulo 2^16
fromCharCode(n) == n % 65536

\* the replace callback of caesarCipher, applied to one matched letter
shiftLetter(char, s) ==
    LET start == IF char <= 90 THEN 65 ELSE 97
    IN  fromCharCode(jsRem(char - start + s + 26, 26) + start)

\* text.replace(/[a-zA-Z]/g, ...): letters are replaced, the rest is kept
caesarCipher(text, shift, encrypt) ==
    LET s == IF encrypt THEN shift ELSE 0 - shift
    IN  [i \in 1..Len(text) |->
           IF isLetter(text[i]) THEN shiftLetter(text[i], s) ELSE text[i]]

\* parseInt(key) || 3: an empty key field and the key 0 both give 3
shiftOf(field) == IF field = 0 THEN 3 ELSE field

\* 'A', 'Z', 'a', 'm', 'z', '1' and the space
CaesarChars == {65, 90, 97, 109, 122, 49, 32}

RECURSIVE CaesarTexts(_)
CaesarTexts(k) == IF k = 0 THEN {<<>>}
                  ELSE LET S == CaesarTexts(k - 1)
                       IN  S \cup {Append(t, c) : t \in S, c \in CaesarChars}

Keys == (0 - MaxKey)..MaxKey

\* handleEncrypt with the algorithm "caesar", together with the timer
\* callback that stores the result in outputText
handleEncrypt ==
    /\ tpc = "input"
    /\ trim(inputText) # <<>>
    /\ outputText' = caesarCipher(inputText, shiftOf(keyField), TRUE)
    /\ tpc' = "encrypted"
    /\ UNCHANGED <<inputText, keyField, restored>>
    /\ UNCHANGED <<codecVars, uiVars, cipherVars, concVars>>

\* handleDecrypt with the algorithm "caesar", on the output of handleEncrypt
\* pasted back as the input and with the key left as it was
handleDecrypt ==
    /\ tpc = "encrypted"
    /\ trim(outputText) # <<>>
    /\ restored' = caesarCipher(outputText, shiftOf(keyField), FALSE)
    /\ tpc' = "decrypted"
    /\ UNCHANGED <<inputText, keyField, outputText>>
    /\ UNCHANGED <<codecVars, uiVars, cipherVars, concVars>>

InitCaesar ==
    /\ imageData = NoImage
    /\ message = <<>>
    /\ pc = "input"
    /\ embedApi = "none"
    /\ embedOutcome = "none"
    /\ embedResult = NoResult
    /\ canvasData = <<>>
    /\ stego = NoImage
    /\ extractApi = "none"
    /\ extractSource = "none"
    /\ extractOutcome = "none"
    /\ extractResult = NoResult
    /\ bitsRead = 0
    /\ console = <<>>
    /\ earlier = <<>>
    /\ UIInitial
    /\ CipherInitial
    /\ ConcInitial
    /\ inputText \in CaesarTexts(MaxTextLen)
    /\ keyField \in Keys
    /\ outputText = <<>>
    /\ restored = <<>>
    /\ tpc = "input"

NextCaesar == handleEncrypt \/ handleDecrypt

SpecCaesar == InitCaesar /\ [][NextCaesar]_vars

isUpper(c) == c >= 65 /\ c <= 90
isLower(c) == c >= 97 /\ c <= 122

\* the output has a letter of the same case wherever the input has a letter
\* and the input's own character everywhere else
SameShape(from, to) ==
    /\ Len(to) = Len(from)
    /\ \A i \in 1..Len(from) :
         /\ isUpper(from[i]) => isUpper(to[i])
         /\ isLower(from[i]) => isLower(to[i])
         /\ ~isLetter(from[i]) => to[i] = from[i]

\* C30: for every text and every integer shift, shifts above 26 and
\* negative shifts included, decrypting the encrypted text with the same
\* shift gives the text back, every letter is encrypted to a letter of the
\* same case, and non-letters are unchanged.
C30_CaesarRoundTrip ==
    /\ tpc # "input" => SameShape(inputText, outputText)
    /\ tpc = "decrypted" => restored = inputText

====
